---- MODULE Spec2Model ----
(***************************************************************************)
(* Session lifecycle of the Forms gRPC server: login (CreateSession),      *)
(* validation (verifyToken, ValidateSession, the guard of every CRUD       *)
(* handler) and logout (DeleteSession), over the sessions table.           *)
(*                                                                         *)
(* The model follows the stateful revision of utils/auth.js and            *)
(* services/sessionsService.js (createSession / verifyToken /              *)
(* invalidateSession backed by sessionDb).  The database layer (db/db.js)  *)
(* and the models are not part of the sources; they are modelled from the  *)
(* design document's Session Store and user store.                         *)
(*                                                                         *)
(* Every handler is an async function.  A handler step is one database     *)
(* round trip together with the synchronous code before it and the         *)
(* synchronous code after it up to the next round trip, so the handlers    *)
(* of two calls interleave exactly at their awaits.                        *)
(*                                                                         *)
(* Every database round trip may fail (storeFails).  Spec lets MaxCalls    *)
(* handlers run at once; SpecRace does so for the sessions service and two *)
(* guarded handlers; SpecSerial is the client of client/grpc_client.js     *)
(* that awaits each answer before its next call, and SpecLive adds to it   *)
(* that the event loop runs every continuation.                            *)
(***************************************************************************)
EXTENDS Integers, FiniteSets, Bags, TLC

\* ------------------------------------------------------------------ bounds
MaxUsers == 2
MaxSessions == 2
MaxForms == 1
MaxTicks == 1
MaxJumps == 1
\* calls the server is handling at the same time
MaxCalls == 2
\* calls in flight when the client awaits each answer before its next call
MaxSerial == 1

\* ------------------------------------------------------- program constants
\* jwt.sign(..., { expiresIn: '7d' }), in seconds
ExpiresIn == 604800
JWT_SECRET == "super-secret-key"

\* grpc.status codes used by the handlers
OK == "OK"
INVALID_ARGUMENT == "INVALID_ARGUMENT"
UNAUTHENTICATED == "UNAUTHENTICATED"
PERMISSION_DENIED == "PERMISSION_DENIED"
NOT_FOUND == "NOT_FOUND"
INTERNAL == "INTERNAL"

\* ------------------------------------------------------------------ inputs
Emails == {"", "a@x.ee", "b@x.ee"}
Passwords == {"", "secret1", "wrong1"}
RegPasswords == {"secret1"}
Titles == {"", "Form"}
\* call.request.formId
FormIds == 1..MaxForms
\* call.request.userId; 0 stands for the field left out (proto default "")
UserIds == 0..MaxUsers
\* call.request.password of UpdateUser: too short, long enough
NewPasswords == {"short", "secret1"}

\* a token as presented in call.request.token: the empty/absent string, a
\* string that is not a JWT, or a JWT with its payload and signing key
Absent == [kind |-> "absent", userId |-> 0, iat |-> 0, exp |-> 0, sig |-> ""]
Malformed == [kind |-> "malformed", userId |-> 0, iat |-> 0, exp |-> 0, sig |-> ""]
Forged == [kind |-> "jwt", userId |-> 1, iat |-> 0, exp |-> ExpiresIn, sig |-> "forged-key"]

\* JavaScript null / undefined results
NoUser == [id |-> 0, email |-> ""]
NoSession == [userId |-> 0, email |-> ""]
\* an awaited call threw instead of returning
Threw == [id |-> -1, email |-> ""]
SessionThrew == [userId |-> -1, email |-> ""]

VARIABLES
  now,        \* the clock, in seconds (Date.now() / 1000)
  users,      \* users table: records [id, email, password]
  nextUserId, \* next id of the users table
  sessions,   \* sessions table: a bag of rows [token, userId]
  nextSessionId, \* next id of the sessions table
  forms,      \* forms table: records [id, userId]
  nextFormId, \* next id of the forms table
  calls,      \* the calls in flight: a bag of records (handler, position, locals)
  issued,     \* tokens returned by a successful CreateSession
  loggedOut,  \* tokens for which some DeleteSession returned success
  revoked,    \* tokens logged out and not stored again since
  maxInFlight \* how many calls the clients keep in flight

vars == <<now, users, nextUserId, sessions, nextSessionId, forms, nextFormId, calls,
          issued, loggedOut, revoked, maxInFlight>>

world == <<users, nextUserId, sessions, nextSessionId, forms, nextFormId,
           issued, loggedOut, revoked>>

\* ------------------------------------------------------------ jsonwebtoken
\* jwt.sign(payload, secret, { expiresIn }) at clock reading t: the payload
\* gets iat = t and exp = t + expiresIn, and the HS256 signature is a
\* function of payload and secret (no random part, no jti)
jwtSign(userId, secret, t) ==
  [kind |-> "jwt", userId |-> userId, iat |-> t, exp |-> t + ExpiresIn, sig |-> secret]

\* jwt.verify called with ignoreExpiration
jwtVerify_ignoreExpiration(token, secret, t) ==
  /\ token.kind = "jwt"
  /\ token.sig = secret

\* jwt.verify(token, secret) at clock reading t does not throw
jwtVerify(token, secret, t) ==
  /\ token.kind = "jwt"
  /\ token.sig = secret
  /\ t < token.exp

\* --------------------------------------------------------------- db layer
\* Every database call is a round trip that can fail: storeFails says that
\* this one throws (the database is locked, closed or unreachable).

\* userDb.verifyUser(email, password): the user with that email whose
\* password verifies, or null
verifyUser(email, password, storeFails) ==
  IF storeFails THEN Threw
  ELSE IF \E u \in users : u.email = email /\ u.password = password
  THEN LET u == CHOOSE u \in users : u.email = email /\ u.password = password
       IN [id |-> u.id, email |-> u.email]
  ELSE NoUser

\* sessionDb.createSession(userId, token): insert one row
sessionDb_createSession(userId, token) ==
  sessions (+) SetToBag({[token |-> token, userId |-> userId]})

\* sessionDb.verifySession(token): the row of that token joined with its
\* user, or null when there is no such row or the user record is gone
sessionDb_verifySession(token, storeFails) ==
  IF storeFails THEN SessionThrew
  ELSE IF \E r \in BagToSet(sessions) : r.token = token /\ \E u \in users : u.id = r.userId
  THEN LET r == CHOOSE r \in BagToSet(sessions) :
                  r.token = token /\ \E u \in users : u.id = r.userId
           u == CHOOSE u \in users : u.id = r.userId
       IN [userId |-> r.userId, email |-> u.email]
  ELSE NoSession

\* sessionDb.deleteSession(token): delete the rows of that token
sessionDb_deleteSession(token) ==
  LET keep == {r \in BagToSet(sessions) : r.token # token}
  IN [r \in keep |-> sessions[r]]

\* UserModel.create(email, password, name)
UserModel_create(email, password) ==
  users \cup {[id |-> nextUserId, email |-> email, password |-> password]}

\* UserModel.delete(userId): removes the user record only
UserModel_delete(userId) == {u \in users : u.id # userId}

\* UserModel.getById(userId): the user, or 'User not found'
UserModel_getById(userId) ==
  IF \E u \in users : u.id = userId
  THEN LET u == CHOOSE u \in users : u.id = userId IN [id |-> u.id, email |-> u.email]
  ELSE NoUser

\* UserModel.update(userId, userData): the fields given replace the stored ones
UserModel_update(userId, password) ==
  {IF u.id = userId /\ password # "" THEN [u EXCEPT !.password = password] ELSE u : u \in users}

\* FormModel.findById(formId): the form, or null
FormModel_findById(formId) ==
  IF \E f \in forms : f.id = formId
  THEN CHOOSE f \in forms : f.id = formId
  ELSE [id |-> 0, userId |-> 0]

\* FormModel.create(formData)
FormModel_create(userId) == forms \cup {[id |-> nextFormId, userId |-> userId]}

\* FormModel.update(formId, formData): the fields of formData replace those
\* of the form with that id; the handler always puts userId in formData
FormModel_update(formId, userId) ==
  {IF f.id = formId THEN [f EXCEPT !.userId = userId] ELSE f : f \in forms}

\* FormModel.delete(formId): removes the form with that id
FormModel_delete(formId) == {f \in forms : f.id # formId}

\* ------------------------------------------------------------ utils/auth.js
generateToken(userId) == jwtSign(userId, JWT_SECRET, now)

\* createSession that keeps one session per user: the rows of the user are
\* replaced by the new one
createSession_single(userId, storeFails) ==
  LET token == generateToken(userId)
      others == {r \in BagToSet(sessions) : r.userId # userId}
  IN IF storeFails
     THEN [threw |-> TRUE, token |-> Absent, sessions |-> sessions]
     ELSE [threw |-> FALSE, token |-> token,
           sessions |-> [r \in others |-> sessions[r]]
                        (+) SetToBag({[token |-> token, userId |-> userId]})]

\* createSession(userId): the token it returns and the table it leaves;
\* when the insert throws, the catch block logs and throws again
createSession(userId, storeFails) ==
  LET token == generateToken(userId)
  IN IF storeFails
     THEN [threw |-> TRUE, token |-> Absent, sessions |-> sessions]
     ELSE [threw |-> FALSE, token |-> token,
           sessions |-> sessionDb_createSession(userId, token)]

\* verifyToken that trusts the signature alone and looks the user up,
\* without consulting the sessions table
verifyToken_stateless(token, storeFails) ==
  IF token.kind = "absent" THEN NoUser
  ELSE IF ~jwtVerify(token, JWT_SECRET, now) THEN NoUser
  ELSE IF storeFails THEN NoUser
  ELSE IF ~\E u \in users : u.id = token.userId THEN NoUser
  ELSE LET u == CHOOSE u \in users : u.id = token.userId
       IN [id |-> u.id, email |-> u.email]

\* verifyToken that takes the identity from the payload of the token once
\* a session row exists, without resolving the user
verifyToken_decoded(token, storeFails) ==
  IF token.kind = "absent" THEN NoUser
  ELSE IF ~jwtVerify(token, JWT_SECRET, now) THEN NoUser
  ELSE IF storeFails THEN NoUser
  ELSE IF ~\E r \in BagToSet(sessions) : r.token = token THEN NoUser
  ELSE [id |-> token.userId, email |-> ""]

\* verifyToken that takes the identity from whichever session row it finds,
\* not from the row of the token
verifyToken_anyRow(token, storeFails) ==
  IF token.kind = "absent" THEN NoUser
  ELSE IF ~jwtVerify(token, JWT_SECRET, now) THEN NoUser
  ELSE IF storeFails THEN NoUser
  ELSE IF sessionDb_verifySession(token, FALSE) = NoSession THEN NoUser
  ELSE LET r == CHOOSE r \in BagToSet(sessions) : \E u \in users : u.id = r.userId
           u == CHOOSE u \in users : u.id = r.userId
       IN [id |-> r.userId, email |-> u.email]

\* verifyToken without its try/catch: a jwt.verify failure propagates
verifyToken_rethrow(token, storeFails) ==
  IF token.kind = "absent" THEN NoUser
  ELSE IF ~jwtVerify(token, JWT_SECRET, now) THEN Threw
  ELSE LET session == sessionDb_verifySession(token, storeFails)
       IN IF session = SessionThrew THEN Threw
          ELSE IF session = NoSession THEN NoUser
          ELSE [id |-> session.userId, email |-> session.email]

\* verifyToken(token): the identity, or null; its catch block turns a
\* throw of jwt.verify and a throw of the session lookup alike into null
verifyToken(token, storeFails) ==
  IF token.kind = "absent" THEN NoUser
  ELSE IF ~jwtVerify(token, JWT_SECRET, now) THEN NoUser
  ELSE LET session == sessionDb_verifySession(token, storeFails)
       IN IF session = SessionThrew THEN NoUser
          ELSE IF session = NoSession THEN NoUser
          ELSE [id |-> session.userId, email |-> session.email]

\* verifyToken that purges the session row of a token jwt.verify rejects
verifyToken_purging(token, storeFails) ==
  IF token.kind = "jwt" /\ ~jwtVerify(token, JWT_SECRET, now)
  THEN sessionDb_deleteSession(token)
  ELSE sessions

\* the sessions table verifyToken(token) leaves: its one database call is
\* the lookup, it writes nothing
verifyToken_writes(token, storeFails) == sessions

\* invalidateSession that reports success and leaves the row in place
invalidateSession_noop(token, storeFails) ==
  [threw |-> FALSE, result |-> TRUE, sessions |-> sessions]

\* invalidateSession that logs the user out everywhere: it deletes every
\* session row of the user of the token
invalidateSession_everywhere(token, storeFails) ==
  IF storeFails
  THEN [threw |-> TRUE, result |-> FALSE, sessions |-> sessions]
  ELSE LET keep == {r \in BagToSet(sessions) : r.userId # token.userId}
       IN [threw |-> FALSE, result |-> TRUE, sessions |-> [r \in keep |-> sessions[r]]]

\* invalidateSession(token): its result and the table it leaves; when the
\* delete throws, the catch block logs and throws again
invalidateSession(token, storeFails) ==
  IF storeFails
  THEN [threw |-> TRUE, result |-> FALSE, sessions |-> sessions]
  ELSE [threw |-> FALSE, result |-> TRUE, sessions |-> sessionDb_deleteSession(token)]

\* ------------------------------------------------------------------- calls
NoResp == [code |-> "", message |-> "", token |-> Absent, userId |-> 0, forms |-> {}]
Error(code, message) == [NoResp EXCEPT !.code = code, !.message = message]

\* callback({ code: UNAUTHENTICATED, message: 'Invalid or expired token' })
InvalidToken == Error(UNAUTHENTICATED, "Invalid or expired token")

\* the catch block of every handler
InternalError == Error(INTERNAL, "Internal server error")

\* callback({ code: UNAUTHENTICATED, message: 'Invalid email or password' })
InvalidLogin == Error(UNAUTHENTICATED, "Invalid email or password")

HasRow(token) == \E r \in BagToSet(sessions) : r.token = token
HasUser(userId) == \E u \in users : u.id = userId

\* what is the matter with a presented token, as an observer sees it
TokenClass(token, storeFails) ==
  IF token.kind = "absent" THEN "absent"
  ELSE IF token.kind = "malformed" THEN "malformed"
  ELSE IF token.sig # JWT_SECRET THEN "badsig"
  ELSE IF now >= token.exp THEN "expired"
  ELSE IF storeFails THEN "storefail"
  ELSE IF ~HasRow(token) THEN "norecord"
  ELSE IF ~HasUser(token.userId) THEN "nouser"
  ELSE "live"

\* why a login would fail, as an observer sees it
LoginClass(email, password, storeFails) ==
  IF email = "" \/ password = "" THEN "empty"
  ELSE IF storeFails THEN "storefail"
  ELSE IF ~\E u \in users : u.email = email THEN "unknown-email"
  ELSE IF ~\E u \in users : u.email = email /\ u.password = password THEN "wrong-password"
  ELSE "ok"

IdleCall ==
  [op |-> "", pc |-> "idle", token |-> Absent, cls |-> "", target |-> 0, arg |-> "",
   user |-> NoUser, resp |-> NoResp,
   wasLoggedOut |-> FALSE, wasRevoked |-> FALSE, accessed |-> FALSE, peerOK |-> FALSE,
   threw |-> FALSE, callbacks |-> 0]

\* a call arrives
NewCall(op, token, cls) ==
  [IdleCall EXCEPT !.op = op, !.pc = "pending", !.token = token, !.cls = cls,
                   !.wasLoggedOut = token \in loggedOut,
                   !.wasRevoked = token \in revoked]

\* callback(...) is invoked: the call has its answer
Done(call, resp) ==
  [call EXCEPT !.pc = "done", !.resp = resp, !.callbacks = call.callbacks + 1]

\* a call answered at the guard: the handler has not looked at the other
\* fields of the request
Unread(call) == [call EXCEPT !.target = 0, !.arg = ""]

\* no response is waiting to be sent
Quiet == \A d \in BagToSet(calls) : d.pc # "done"

\* the server accepts another call
Free == Quiet /\ BagCardinality(calls) < maxInFlight

\* call is in flight, inside handler op
At(call, op) == Quiet /\ call.pc = "pending" /\ call.op = op

One(call) == SetToBag({call})

\* a call arrives and runs up to its first await or its callback
Arrive(call) == calls' = calls (+) One(call)

\* call resumes and runs up to its next await or its callback
Resume(call, next) == calls' = (calls (-) One(call)) (+) One(next)

\* the handler has awaited verifyToken(token): what that call left behind
Verified(token, storeFails) ==
  /\ sessions' = verifyToken_writes(token, storeFails)
  /\ UNCHANGED <<maxInFlight, now, users, nextUserId, nextSessionId, forms, nextFormId,
                 issued, loggedOut, revoked>>

\* the tokens a client can present
Presentable == {Absent, Malformed, Forged} \cup issued

\* the server has started on an empty database
Started ==
  /\ now = 0
  /\ users = {}
  /\ nextUserId = 1
  /\ sessions = EmptyBag
  /\ nextSessionId = 1
  /\ forms = {}
  /\ nextFormId = 1
  /\ calls = EmptyBag
  /\ issued = {}
  /\ loggedOut = {}
  /\ revoked = {}

Init == Started /\ maxInFlight = MaxCalls

InitSerial == Started /\ maxInFlight = MaxSerial

\* ------------------------------------------------------------------- clock
Tick ==
  /\ Quiet
  /\ now < MaxTicks
  /\ now' = now + 1
  /\ UNCHANGED <<maxInFlight, world, calls>>

\* a token lifetime passes
Expire ==
  /\ Quiet
  /\ now \div ExpiresIn < MaxJumps
  /\ now' = now + ExpiresIn
  /\ UNCHANGED <<maxInFlight, world, calls>>

\* ------------------------------------------------- services/usersService.js
\* CreateUser: not guarded; one round trip (UserModel.create)
CreateUser(email, password) ==
  /\ Quiet
  /\ nextUserId <= MaxUsers
  /\ IF email = "" \/ password = "" \/ (\E u \in users : u.email = email)
     THEN UNCHANGED <<users, nextUserId>>
     ELSE /\ users' = UserModel_create(email, password)
          /\ nextUserId' = nextUserId + 1
  /\ UNCHANGED <<maxInFlight, now, sessions, nextSessionId, forms, nextFormId, calls,
                 issued, loggedOut, revoked>>

\* the identity verifyToken returns is { id, email, name }: it has no role
role(user) == "undefined"

\* GetUser without the ownership check
GetUser_anyone(token, userId, storeFails) ==
  /\ Free
  /\ LET call == [NewCall("GetUser", token, TokenClass(token, storeFails))
                    EXCEPT !.target = userId]
         authenticatedUser == verifyToken(token, storeFails)
     IN IF authenticatedUser = Threw
        THEN Arrive(Done(Unread(call), InternalError))
        ELSE IF authenticatedUser = NoUser
        THEN Arrive(Done(Unread(call), InvalidToken))
        ELSE Arrive([call EXCEPT !.user = authenticatedUser])
  /\ Verified(token, storeFails)

\* GetUser up to its second round trip: guard, then the self-or-admin check
GetUser(token, userId, storeFails) ==
  /\ Free
  /\ LET call == [NewCall("GetUser", token, TokenClass(token, storeFails))
                    EXCEPT !.target = userId]
         authenticatedUser == verifyToken(token, storeFails)
     IN IF authenticatedUser = Threw
        THEN Arrive(Done(Unread(call), InternalError))
        ELSE IF authenticatedUser = NoUser
        THEN Arrive(Done(Unread(call), InvalidToken))
        ELSE IF authenticatedUser.id # userId /\ role(authenticatedUser) # "admin"
        THEN Arrive(Done([call EXCEPT !.user = authenticatedUser],
                         Error(PERMISSION_DENIED, "You can only access your own user data")))
        ELSE Arrive([call EXCEPT !.user = authenticatedUser])
  /\ Verified(token, storeFails)

\* GetUser: UserModel.getById and the callback
GetUserModel(call) ==
  /\ At(call, "GetUser")
  /\ LET user == UserModel_getById(call.target)
     IN IF user = NoUser
        THEN Resume(call, Done([call EXCEPT !.accessed = TRUE],
                               Error(NOT_FOUND, "User not found")))
        ELSE Resume(call, Done([call EXCEPT !.accessed = TRUE],
                               [NoResp EXCEPT !.code = OK, !.userId = user.id]))
  /\ UNCHANGED <<maxInFlight, now, world>>

\* UpdateUser up to its second round trip: guard, the self-access check and
\* the checks of the fields given
UpdateUser(token, userId, password, storeFails) ==
  /\ Free
  /\ LET call == [NewCall("UpdateUser", token, TokenClass(token, storeFails))
                    EXCEPT !.target = userId, !.arg = password]
         authenticatedUser == verifyToken(token, storeFails)
     IN IF authenticatedUser = Threw
        THEN Arrive(Done(Unread(call), InternalError))
        ELSE IF authenticatedUser = NoUser
        THEN Arrive(Done(Unread(call), InvalidToken))
        ELSE IF authenticatedUser.id # userId
        THEN Arrive(Done([call EXCEPT !.user = authenticatedUser],
                         Error(PERMISSION_DENIED, "You can only update your own user data")))
        ELSE IF password = "short"
        THEN Arrive(Done([call EXCEPT !.user = authenticatedUser],
                         Error(INVALID_ARGUMENT, "Password must be at least 6 characters")))
        ELSE Arrive([call EXCEPT !.user = authenticatedUser])
  /\ Verified(token, storeFails)

\* UpdateUser: UserModel.update and the callback
UpdateUserModel(call) ==
  /\ At(call, "UpdateUser")
  /\ users' = UserModel_update(call.target, call.arg)
  /\ IF HasUser(call.target)
     THEN Resume(call, Done([call EXCEPT !.accessed = TRUE],
                            [NoResp EXCEPT !.code = OK, !.userId = call.target]))
     ELSE Resume(call, Done([call EXCEPT !.accessed = TRUE],
                            Error(NOT_FOUND, "User not found")))
  /\ UNCHANGED <<maxInFlight, now, nextUserId, sessions, nextSessionId, forms, nextFormId,
                 issued, loggedOut, revoked>>

\* DeleteUser up to its second round trip: guard, then the self-access check
DeleteUser(token, userId, storeFails) ==
  /\ Free
  /\ LET call == [NewCall("DeleteUser", token, TokenClass(token, storeFails))
                    EXCEPT !.target = userId]
         authenticatedUser == verifyToken(token, storeFails)
     IN IF authenticatedUser = Threw
        THEN Arrive(Done(Unread(call), InternalError))
        ELSE IF authenticatedUser = NoUser
        THEN Arrive(Done(Unread(call), InvalidToken))
        ELSE IF authenticatedUser.id # userId
        THEN Arrive(Done([call EXCEPT !.user = authenticatedUser],
                         Error(PERMISSION_DENIED, "You can only delete your own account")))
        ELSE Arrive([call EXCEPT !.user = authenticatedUser])
  /\ Verified(token, storeFails)

\* DeleteUser: UserModel.delete and the callback
DeleteUserModel(call) ==
  /\ At(call, "DeleteUser")
  /\ users' = UserModel_delete(call.target)
  /\ IF HasUser(call.target)
     THEN Resume(call, Done([call EXCEPT !.accessed = TRUE],
                            [NoResp EXCEPT !.code = OK,
                                           !.message = "User deleted successfully"]))
     ELSE Resume(call, Done([call EXCEPT !.accessed = TRUE],
                            Error(NOT_FOUND, "User not found")))
  /\ UNCHANGED <<maxInFlight, now, nextUserId, sessions, nextSessionId, forms, nextFormId,
                 issued, loggedOut, revoked>>

\* ---------------------------------------------- services/sessionsService.js
\* CreateSession that tells an unknown email from a wrong password
CreateSession_leaky(email, password, storeFails) ==
  /\ Free
  /\ LET call == NewCall("CreateSession", Absent, LoginClass(email, password, storeFails))
     IN IF email = "" \/ password = ""
        THEN Arrive(Done(call, Error(INVALID_ARGUMENT, "Email and password are required")))
        ELSE IF ~\E u \in users : u.email = email
        THEN Arrive(Done(call, Error(NOT_FOUND, "User not found")))
        ELSE LET user == verifyUser(email, password, storeFails)
             IN IF user = NoUser
                THEN Arrive(Done(call, InvalidLogin))
                ELSE Arrive([call EXCEPT !.user = user])
  /\ UNCHANGED <<maxInFlight, now, world>>

\* CreateSession that mints and stores the token before it looks at what
\* verifyUser returned
CreateSession_mintFirst(email, password, storeFails) ==
  /\ Free
  /\ LET call == NewCall("CreateSession", Absent, LoginClass(email, password, storeFails))
         user == verifyUser(email, password, storeFails)
     IN IF email = "" \/ password = ""
        THEN Arrive(Done(call, Error(INVALID_ARGUMENT, "Email and password are required")))
             /\ UNCHANGED sessions
        ELSE IF user = Threw
        THEN Arrive(Done(call, InternalError)) /\ UNCHANGED sessions
        ELSE IF user = NoUser
        THEN Arrive(Done(call, InvalidLogin))
             /\ sessions' = sessionDb_createSession(user.id, generateToken(user.id))
        ELSE Arrive([call EXCEPT !.user = user]) /\ UNCHANGED sessions
  /\ UNCHANGED <<maxInFlight, now, users, nextUserId, nextSessionId, forms, nextFormId,
                 issued, loggedOut, revoked>>

\* CreateSession up to its second round trip: input check, userDb.verifyUser
CreateSession(email, password, storeFails) ==
  /\ Free
  /\ LET call == NewCall("CreateSession", Absent, LoginClass(email, password, storeFails))
     IN IF email = "" \/ password = ""
        THEN Arrive(Done(call, Error(INVALID_ARGUMENT, "Email and password are required")))
        ELSE LET user == verifyUser(email, password, storeFails)
             IN IF user = Threw
                THEN Arrive(Done(call, InternalError))
                ELSE IF user = NoUser
                THEN Arrive(Done(call, InvalidLogin))
                ELSE Arrive([call EXCEPT !.user = user])
  /\ UNCHANGED <<maxInFlight, now, world>>

\* CreateSession that returns generateToken(user.id) and stores nothing
CreateSessionStore_stateless(call, storeFails) ==
  /\ At(call, "CreateSession")
  /\ nextSessionId <= MaxSessions
  /\ nextSessionId' = nextSessionId + 1
  /\ issued' = issued \cup {generateToken(call.user.id)}
  /\ Resume(call, Done(call, [NoResp EXCEPT !.code = OK,
                                            !.token = generateToken(call.user.id),
                                            !.userId = call.user.id]))
  /\ UNCHANGED <<maxInFlight, now, users, nextUserId, sessions, forms, nextFormId,
                 loggedOut, revoked>>

\* CreateSession: createSession(user.id) and the callback
CreateSessionStore(call, storeFails) ==
  /\ At(call, "CreateSession")
  /\ LET made == createSession(call.user.id, storeFails)
     IN IF made.threw
        THEN /\ Resume(call, Done([call EXCEPT !.threw = TRUE, !.accessed = TRUE],
                                  InternalError))
             /\ UNCHANGED <<sessions, nextSessionId, issued, revoked>>
        ELSE /\ nextSessionId <= MaxSessions
             /\ sessions' = made.sessions
             /\ nextSessionId' = nextSessionId + 1
             /\ issued' = issued \cup {made.token}
             /\ revoked' = revoked \ {made.token}
             /\ Resume(call, Done([call EXCEPT !.accessed = TRUE],
                                  [NoResp EXCEPT !.code = OK, !.token = made.token,
                                                 !.userId = call.user.id]))
  /\ UNCHANGED <<maxInFlight, now, users, nextUserId, forms, nextFormId, loggedOut>>

\* DeleteSession that goes on to invalidateSession whatever verifyToken said
DeleteSession_unchecked(token, storeFails) ==
  /\ Free
  /\ LET call == NewCall("DeleteSession", token, TokenClass(token, storeFails))
         user == verifyToken(token, storeFails)
     IN Arrive([call EXCEPT !.user = user])
  /\ Verified(token, storeFails)

\* DeleteSession without the return in front of its first callback: after
\* answering 'Invalid or expired token' the handler goes on
DeleteSession_noReturn(token, storeFails) ==
  /\ Free
  /\ LET call == NewCall("DeleteSession", token, TokenClass(token, storeFails))
         user == verifyToken(token, storeFails)
     IN IF user = Threw
        THEN Arrive(Done(call, InternalError))
        ELSE IF user = NoUser
        THEN Arrive([Done(call, InvalidToken) EXCEPT !.pc = "pending"])
        ELSE Arrive([call EXCEPT !.user = user])
  /\ Verified(token, storeFails)

\* DeleteSession up to its second round trip: verifyToken
DeleteSession(token, storeFails) ==
  /\ Free
  /\ LET call == NewCall("DeleteSession", token, TokenClass(token, storeFails))
         user == verifyToken(token, storeFails)
     IN IF user = Threw
        THEN Arrive(Done(call, InternalError))
        ELSE IF user = NoUser
        THEN Arrive(Done(call, InvalidToken))
        ELSE Arrive([call EXCEPT !.user = user])
  /\ Verified(token, storeFails)

\* the other logouts of the same token that are in flight see that one
\* of them has reported success
NotePeer(token, d) ==
  IF d.pc = "pending" /\ d.op = "DeleteSession" /\ d.token = token
  THEN [d EXCEPT !.peerOK = TRUE]
  ELSE d

\* DeleteSession: invalidateSession(token) and the callback
DeleteSessionInvalidate(call, storeFails) ==
  /\ At(call, "DeleteSession")
  /\ LET gone == invalidateSession(call.token, storeFails)
         NoteIt(d) == NotePeer(call.token, d)
     IN IF gone.threw
        THEN /\ Resume(call, Done([call EXCEPT !.threw = TRUE, !.accessed = TRUE],
                                  InternalError))
             /\ UNCHANGED <<sessions, loggedOut, revoked>>
        ELSE /\ sessions' = gone.sessions
             /\ loggedOut' = loggedOut \cup {call.token}
             /\ revoked' = revoked \cup {call.token}
             /\ calls' = BagOfAll(NoteIt, calls (-) One(call))
                         (+) One(Done([call EXCEPT !.accessed = TRUE],
                                      [NoResp EXCEPT !.code = OK,
                                                     !.message = "Logged out successfully"]))
  /\ UNCHANGED <<maxInFlight, now, users, nextUserId, nextSessionId, forms, nextFormId, issued>>

\* ValidateSession up to its second round trip: verifyToken
ValidateSession(token, storeFails) ==
  /\ Free
  /\ LET call == NewCall("ValidateSession", token, TokenClass(token, storeFails))
         user == verifyToken(token, storeFails)
     IN IF user = Threw
        THEN Arrive(Done(call, InternalError))
        ELSE IF user = NoUser
        THEN Arrive(Done(call, InvalidToken))
        ELSE Arrive([call EXCEPT !.user = user])
  /\ Verified(token, storeFails)

\* ValidateSession: UserModel.getById(user.id) and the callback; when the
\* lookup throws (the database fails, or the user is gone and fullUser has
\* no fields to read), the inner catch answers from the identity of the token
ValidateSessionUser(call, storeFails) ==
  /\ At(call, "ValidateSession")
  /\ LET fullUser == IF storeFails THEN Threw ELSE UserModel_getById(call.user.id)
     IN IF fullUser = Threw \/ fullUser = NoUser
        THEN Resume(call, Done([call EXCEPT !.accessed = TRUE, !.threw = TRUE],
                               [NoResp EXCEPT !.code = OK, !.userId = call.user.id,
                                              !.message = "fallback"]))
        ELSE Resume(call, Done([call EXCEPT !.accessed = TRUE],
                               [NoResp EXCEPT !.code = OK, !.userId = fullUser.id,
                                              !.message = "full"]))
  /\ UNCHANGED <<maxInFlight, now, world>>

\* ------------------------------------------------- services/formsService.js
\* CreateForm without the early return on a null identity
CreateForm_unguarded(token, title, storeFails) ==
  /\ Free
  /\ LET call == [NewCall("CreateForm", token, TokenClass(token, storeFails))
                    EXCEPT !.arg = title]
         user == verifyToken(token, storeFails)
     IN IF title = ""
        THEN Arrive(Done([call EXCEPT !.user = user],
                         Error(INVALID_ARGUMENT, "Title is required")))
        ELSE Arrive([call EXCEPT !.user = user])
  /\ Verified(token, storeFails)

\* CreateForm that checks the title before the token
CreateForm_inputFirst(token, title, storeFails) ==
  /\ Free
  /\ LET call == [NewCall("CreateForm", token, TokenClass(token, storeFails))
                    EXCEPT !.arg = title]
         user == verifyToken(token, storeFails)
     IN IF title = ""
        THEN Arrive(Done(call, Error(INVALID_ARGUMENT, "Title is required")))
        ELSE IF user = Threw
        THEN Arrive(Done(call, InternalError))
        ELSE IF user = NoUser
        THEN Arrive(Done(call, InvalidToken))
        ELSE Arrive([call EXCEPT !.user = user])
  /\ Verified(token, storeFails)

\* CreateForm up to its second round trip: guard, then the input check
CreateForm(token, title, storeFails) ==
  /\ Free
  /\ LET call == [NewCall("CreateForm", token, TokenClass(token, storeFails))
                    EXCEPT !.arg = title]
         user == verifyToken(token, storeFails)
     IN IF user = Threw
        THEN Arrive(Done(call, InternalError))
        ELSE IF user = NoUser
        THEN Arrive(Done(call, InvalidToken))
        ELSE IF title = ""
        THEN Arrive(Done([call EXCEPT !.user = user],
                         Error(INVALID_ARGUMENT, "Title is required")))
        ELSE Arrive([call EXCEPT !.user = user])
  /\ Verified(token, storeFails)

\* CreateForm: FormModel.create and the callback
CreateFormModel(call) ==
  /\ At(call, "CreateForm")
  /\ nextFormId <= MaxForms
  /\ forms' = FormModel_create(call.user.id)
  /\ nextFormId' = nextFormId + 1
  /\ Resume(call, Done([call EXCEPT !.accessed = TRUE],
                       [NoResp EXCEPT !.code = OK, !.userId = call.user.id]))
  /\ UNCHANGED <<maxInFlight, now, users, nextUserId, sessions, nextSessionId,
                 issued, loggedOut, revoked>>

\* GetForm up to its second round trip: guard
GetForm(token, formId, storeFails) ==
  /\ Free
  /\ LET call == [NewCall("GetForm", token, TokenClass(token, storeFails))
                    EXCEPT !.target = formId]
         user == verifyToken(token, storeFails)
     IN IF user = Threw
        THEN Arrive(Done(call, InternalError))
        ELSE IF user = NoUser
        THEN Arrive(Done(call, InvalidToken))
        ELSE Arrive([call EXCEPT !.user = user])
  /\ Verified(token, storeFails)

\* GetForm: FormModel.findById and the callback
GetFormModel(call) ==
  /\ At(call, "GetForm")
  /\ LET form == FormModel_findById(call.target)
     IN IF form.id = 0
        THEN Resume(call, Done([call EXCEPT !.accessed = TRUE],
                               Error(NOT_FOUND, "Form does not exist")))
        ELSE Resume(call, Done([call EXCEPT !.accessed = TRUE],
                               [NoResp EXCEPT !.code = OK, !.userId = form.userId,
                                              !.forms = {form}]))
  /\ UNCHANGED <<maxInFlight, now, world>>

\* UpdateForm up to its second round trip: guard
UpdateForm(token, formId, storeFails) ==
  /\ Free
  /\ LET call == [NewCall("UpdateForm", token, TokenClass(token, storeFails))
                    EXCEPT !.target = formId]
         user == verifyToken(token, storeFails)
     IN IF user = Threw
        THEN Arrive(Done(Unread(call), InternalError))
        ELSE IF user = NoUser
        THEN Arrive(Done(Unread(call), InvalidToken))
        ELSE Arrive([call EXCEPT !.user = user])
  /\ Verified(token, storeFails)

\* UpdateForm: FormModel.update with userId: user.id, and the callback
UpdateFormModel(call) ==
  /\ At(call, "UpdateForm")
  /\ forms' = FormModel_update(call.target, call.user.id)
  /\ IF FormModel_findById(call.target).id = 0
     THEN Resume(call, Done([call EXCEPT !.accessed = TRUE],
                            Error(NOT_FOUND, "Form does not exist")))
     ELSE Resume(call, Done([call EXCEPT !.accessed = TRUE],
                            [NoResp EXCEPT !.code = OK, !.userId = call.user.id]))
  /\ UNCHANGED <<maxInFlight, now, users, nextUserId, sessions, nextSessionId, nextFormId,
                 issued, loggedOut, revoked>>

\* DeleteForm up to its second round trip: guard
DeleteForm(token, formId, storeFails) ==
  /\ Free
  /\ LET call == [NewCall("DeleteForm", token, TokenClass(token, storeFails))
                    EXCEPT !.target = formId]
         user == verifyToken(token, storeFails)
     IN IF user = Threw
        THEN Arrive(Done(Unread(call), InternalError))
        ELSE IF user = NoUser
        THEN Arrive(Done(Unread(call), InvalidToken))
        ELSE Arrive([call EXCEPT !.user = user])
  /\ Verified(token, storeFails)

\* DeleteForm: FormModel.delete(formId) and the callback
DeleteFormModel(call) ==
  /\ At(call, "DeleteForm")
  /\ forms' = FormModel_delete(call.target)
  /\ IF FormModel_findById(call.target).id = 0
     THEN Resume(call, Done([call EXCEPT !.accessed = TRUE],
                            Error(NOT_FOUND, "Form does not exist")))
     ELSE Resume(call, Done([call EXCEPT !.accessed = TRUE],
                            [NoResp EXCEPT !.code = OK,
                                           !.message = "Form deleted successfully"]))
  /\ UNCHANGED <<maxInFlight, now, users, nextUserId, sessions, nextSessionId, nextFormId,
                 issued, loggedOut, revoked>>

\* ListForms up to its second round trip: guard
ListForms(token, storeFails) ==
  /\ Free
  /\ LET call == NewCall("ListForms", token, TokenClass(token, storeFails))
         user == verifyToken(token, storeFails)
     IN IF user = Threw
        THEN Arrive(Done(call, InternalError))
        ELSE IF user = NoUser
        THEN Arrive(Done(call, InvalidToken))
        ELSE Arrive([call EXCEPT !.user = user])
  /\ Verified(token, storeFails)

\* ListForms that answers with every form FormModel.findAll returns
ListFormsModel_unfiltered(call) ==
  /\ At(call, "ListForms")
  /\ LET allForms == forms
     IN Resume(call, Done([call EXCEPT !.accessed = TRUE],
                          [NoResp EXCEPT !.code = OK, !.forms = allForms]))
  /\ UNCHANGED <<maxInFlight, now, world>>

\* ListForms: FormModel.findAll, the filter on userId and the callback
ListFormsModel(call) ==
  /\ At(call, "ListForms")
  /\ LET allForms == forms
         userForms == {form \in allForms : form.userId = call.user.id}
     IN Resume(call, Done([call EXCEPT !.accessed = TRUE],
                          [NoResp EXCEPT !.code = OK, !.forms = userForms]))
  /\ UNCHANGED <<maxInFlight, now, world>>

\* the response of a call is sent and the call ends
Respond(call) ==
  /\ call.pc = "done"
  /\ calls' = calls (-) One(call)
  /\ UNCHANGED <<maxInFlight, now, world>>

\* ---------------------------------------------------------- specification
Next ==
  \/ Tick
  \/ Expire
  \/ \E email \in Emails, password \in RegPasswords \cup {""} : CreateUser(email, password)
  \/ \E token \in Presentable, userId \in UserIds, storeFails \in BOOLEAN :
        DeleteUser(token, userId, storeFails)
  \/ \E call \in BagToSet(calls) : DeleteUserModel(call)
  \/ \E token \in Presentable, userId \in UserIds, storeFails \in BOOLEAN :
        GetUser(token, userId, storeFails)
  \/ \E call \in BagToSet(calls) : GetUserModel(call)
  \/ \E token \in Presentable, userId \in UserIds, password \in NewPasswords,
        storeFails \in BOOLEAN : UpdateUser(token, userId, password, storeFails)
  \/ \E call \in BagToSet(calls) : UpdateUserModel(call)
  \/ \E email \in Emails, password \in Passwords, storeFails \in BOOLEAN :
        CreateSession(email, password, storeFails)
  \/ \E call \in BagToSet(calls), storeFails \in BOOLEAN : CreateSessionStore(call, storeFails)
  \/ \E token \in Presentable, storeFails \in BOOLEAN : DeleteSession(token, storeFails)
  \/ \E call \in BagToSet(calls), storeFails \in BOOLEAN :
        DeleteSessionInvalidate(call, storeFails)
  \/ \E token \in Presentable, storeFails \in BOOLEAN : ValidateSession(token, storeFails)
  \/ \E call \in BagToSet(calls), storeFails \in BOOLEAN :
        ValidateSessionUser(call, storeFails)
  \/ \E token \in Presentable, title \in Titles, storeFails \in BOOLEAN :
        CreateForm(token, title, storeFails)
  \/ \E call \in BagToSet(calls) : CreateFormModel(call)
  \/ \E token \in Presentable, formId \in FormIds, storeFails \in BOOLEAN :
        GetForm(token, formId, storeFails)
  \/ \E call \in BagToSet(calls) : GetFormModel(call)
  \/ \E token \in Presentable, formId \in FormIds, storeFails \in BOOLEAN :
        UpdateForm(token, formId, storeFails)
  \/ \E call \in BagToSet(calls) : UpdateFormModel(call)
  \/ \E token \in Presentable, formId \in FormIds, storeFails \in BOOLEAN :
        DeleteForm(token, formId, storeFails)
  \/ \E call \in BagToSet(calls) : DeleteFormModel(call)
  \/ \E token \in Presentable, storeFails \in BOOLEAN : ListForms(token, storeFails)
  \/ \E call \in BagToSet(calls) : ListFormsModel(call)
  \/ \E call \in BagToSet(calls) : Respond(call)

\* the sessions service together with one guarded handler of each kind, a
\* create (CreateForm) and a delete (DeleteUser): the handlers whose
\* interleavings decide what a login, a validation and a logout may see
NextRace ==
  \/ Tick
  \/ Expire
  \/ \E email \in Emails, password \in RegPasswords \cup {""} : CreateUser(email, password)
  \/ \E token \in Presentable, userId \in UserIds, storeFails \in BOOLEAN :
        DeleteUser(token, userId, storeFails)
  \/ \E call \in BagToSet(calls) : DeleteUserModel(call)
  \/ \E email \in Emails, password \in Passwords, storeFails \in BOOLEAN :
        CreateSession(email, password, storeFails)
  \/ \E call \in BagToSet(calls), storeFails \in BOOLEAN : CreateSessionStore(call, storeFails)
  \/ \E token \in Presentable, storeFails \in BOOLEAN : DeleteSession(token, storeFails)
  \/ \E call \in BagToSet(calls), storeFails \in BOOLEAN :
        DeleteSessionInvalidate(call, storeFails)
  \/ \E token \in Presentable, storeFails \in BOOLEAN : ValidateSession(token, storeFails)
  \/ \E call \in BagToSet(calls), storeFails \in BOOLEAN :
        ValidateSessionUser(call, storeFails)
  \/ \E token \in Presentable, title \in Titles, storeFails \in BOOLEAN :
        CreateForm(token, title, storeFails)
  \/ \E call \in BagToSet(calls) : CreateFormModel(call)
  \/ \E call \in BagToSet(calls) : Respond(call)

\* clients that keep up to MaxCalls calls in flight
Spec == Init /\ [][Next]_vars

\* the event loop runs every continuation whose awaited round trip has
\* settled, and grpc sends every answer a callback was given; a continuation
\* waits only while an answer is being sent, so one that can run again and
\* again does run
Scheduled ==
  /\ SF_vars(\E call \in BagToSet(calls), storeFails \in BOOLEAN :
                CreateSessionStore(call, storeFails))
  /\ SF_vars(\E call \in BagToSet(calls), storeFails \in BOOLEAN :
                DeleteSessionInvalidate(call, storeFails))
  /\ SF_vars(\E call \in BagToSet(calls), storeFails \in BOOLEAN :
                ValidateSessionUser(call, storeFails))
  /\ WF_vars(\E call \in BagToSet(calls) : Respond(call))

\* the client that awaits each answer, on a server whose event loop runs
SpecLive == InitSerial /\ [][Next]_vars /\ Scheduled

\* clients that keep up to MaxCalls calls in flight, on the handlers of
\* NextRace
SpecRace == Init /\ [][NextRace]_vars

\* a client that awaits the answer of each call before it sends the next,
\* as the test programs and the example client do
SpecSerial == InitSerial /\ [][Next]_vars

TypeOK ==
  /\ now \in Nat
  /\ \A c \in BagToSet(calls) : c.pc \in {"pending", "done"}

\* ------------------------------------------------------------------ claims
\* handlers that validate the token of the request
Guarded == {"GetUser", "UpdateUser", "DeleteUser", "CreateForm", "GetForm", "UpdateForm",
            "DeleteForm", "ListForms"}
TokenOps == Guarded \cup {"ValidateSession", "DeleteSession"}

\* the calls whose callback has just been invoked
Finished == {c \in BagToSet(calls) : c.pc = "done"}

\* C1: a token returned by a login authenticates while it is live and has
\* not been logged out, and every validation that starts after a
\* DeleteSession of it has returned success is rejected as UNAUTHENTICATED
C1_RevocationEffective ==
  \A c \in Finished :
    c.op \in TokenOps =>
      /\ (c.cls = "live" /\ ~c.wasLoggedOut => c.resp.code # UNAUTHENTICATED)
      /\ (c.wasLoggedOut => c.resp = InvalidToken)

C3_AtMostOneLogout ==
  \A c \in Finished :
    c.op = "DeleteSession" /\ c.resp.code = OK => ~c.peerOK

C5_GuardGating ==
  \A c \in Finished :
    c.op \in Guarded /\ (c.cls \in {"absent", "malformed"} \/ c.wasRevoked) =>
      c.resp = InvalidToken /\ ~c.accessed /\ c.user = NoUser

\* C5 witness: CreateForm with a revoked token and a title was rejected
\* and the forms table is empty
C5_Witness ==
  \E c \in Finished :
    /\ c.op = "CreateForm" /\ c.wasRevoked /\ c.cls = "norecord"
    /\ c.resp = InvalidToken /\ forms = {}

\* C6: a rejection carries the same code and message whatever makes the
\* token invalid
C6_CollapsedRejection ==
  \A c \in Finished :
    c.op \in TokenOps /\ c.cls # "live" =>
      c.resp.code = UNAUTHENTICATED /\ c.resp.message = "Invalid or expired token"

\* C6 witness: an expired token whose session row is still stored was
\* rejected by ValidateSession
C6_Witness ==
  \E c \in Finished :
    /\ c.op = "ValidateSession" /\ c.cls = "expired"
    /\ c.resp.code = UNAUTHENTICATED

\* C7: a login with a known email and a wrong password and a login with an
\* unknown email get the same code and message, and neither stores a session
C7_LoginNoLeak ==
  \A c \in Finished :
    c.op = "CreateSession" /\ c.cls \in {"wrong-password", "unknown-email"} =>
      c.resp = InvalidLogin /\ ~c.accessed

\* C7 witness: a login with a known email and a wrong password was rejected
C7_Witness ==
  \E c \in Finished :
    c.op = "CreateSession" /\ c.cls = "wrong-password" /\ c.resp = InvalidLogin

\* C8: a token that is past its expiry when it is verified is rejected,
\* whether or not its session row is still in the table
C8_ExpiryEnforced ==
  \A c \in Finished :
    c.op \in TokenOps /\ c.cls = "expired" =>
      c.resp = InvalidToken /\ ~c.accessed

\* C8 witness: ListForms was rejected for an expired token whose session
\* row and user are both still present
C8_Witness ==
  \E c \in Finished :
    /\ c.op = "ListForms" /\ c.cls = "expired"
    /\ c.token \in issued /\ now >= c.token.exp
    /\ HasRow(c.token) /\ HasUser(c.token.userId)
    /\ c.resp = InvalidToken

\* C9: every successful CreateSession returns a token that no earlier
\* successful CreateSession returned
C9_DistinctTokens == Cardinality(issued) = nextSessionId - 1

\* C10: a DeleteSession removes the session row of one login only; the row
\* stored by any other login stays in the table
C10_OnlyOwnSession ==
  [][BagCardinality(sessions') >= BagCardinality(sessions) - 1]_vars

\* C11: a token for which a DeleteSession has returned success never
\* authenticates again, whatever happens later, further logins included
C11_PermanentRevocation ==
  \A t \in loggedOut : verifyToken(t, FALSE) = NoUser

\* C12: GetUser, UpdateUser and DeleteUser called with a live token of one
\* user and the userId of another answer PERMISSION_DENIED and never reach
\* their model call; no identity passes as admin
C12_SelfAccessOnly ==
  \A c \in Finished :
    /\ c.op \in {"GetUser", "UpdateUser", "DeleteUser"}
    /\ c.cls = "live" /\ c.target # c.token.userId
    => c.resp.code = PERMISSION_DENIED /\ ~c.accessed

\* C12 witness: GetUser by a logged-in user for the record of another
\* existing user was denied
C12_Witness ==
  \E c \in Finished :
    /\ c.op = "GetUser" /\ c.cls = "live" /\ c.target # c.token.userId
    /\ HasUser(c.target) /\ c.user.id = c.token.userId
    /\ c.resp.code = PERMISSION_DENIED

\* C13: once the user of a token is deleted, verifyToken rejects every token
\* issued for that user, and ValidateSession, DeleteSession and the guarded
\* handlers answer UNAUTHENTICATED, also while the session row is still stored
C13_VanishedUser ==
  /\ \A t \in issued : ~HasUser(t.userId) => verifyToken(t, FALSE) = NoUser
  /\ \A c \in Finished :
       c.op \in TokenOps /\ c.cls = "nouser" => c.resp = InvalidToken /\ ~c.accessed

\* C13 witness: a logout with the token of a deleted user, never logged out
\* before and its session row still stored, was rejected
C13_Witness ==
  \E c \in Finished :
    /\ c.op = "DeleteSession" /\ c.cls = "nouser"
    /\ c.token \in issued /\ c.token \notin loggedOut
    /\ HasRow(c.token) /\ ~HasUser(c.token.userId)
    /\ c.resp = InvalidToken

\* C14: when the session lookup of a validation throws, the call is answered
\* INTERNAL, never UNAUTHENTICATED and never with a success
C14_StorageFailureInternal ==
  \A c \in Finished :
    c.op \in TokenOps /\ c.cls = "storefail" => c.resp = InternalError

\* C15: a step in which verifyToken returned null, the call being answered
\* 'Invalid or expired token', leaves the sessions, users and forms tables
\* exactly as they were
C15_FailedValidationPure ==
  [][(\E c \in BagToSet(calls') :
        c.pc = "done" /\ c.op \in TokenOps /\ c.resp = InvalidToken)
     => sessions' = sessions /\ users' = users /\ forms' = forms]_vars

\* C15 witness: an expired token was rejected and its session row is still
\* in the table
C15_Witness ==
  \E c \in Finished :
    /\ c.op = "ValidateSession" /\ c.cls = "expired" /\ c.resp = InvalidToken
    /\ HasRow(c.token) /\ c.token \in issued

\* C16: a DeleteSession with a token that is absent, malformed, badly
\* signed, expired or without a session row is answered UNAUTHENTICATED,
\* does not reach the store delete and leaves the sessions table as it was
C16_DeadTokenLogout ==
  [][\A c \in BagToSet(calls') :
       /\ c.pc = "done" /\ c.op = "DeleteSession"
       /\ c.cls \in {"absent", "malformed", "badsig", "expired", "norecord"}
       => c.resp = InvalidToken /\ ~c.accessed /\ sessions' = sessions]_vars

\* C16 witness: the logout of an expired token was rejected and the row of
\* that token is still stored
C16_Witness ==
  \E c \in Finished :
    /\ c.op = "DeleteSession" /\ c.cls = "expired" /\ c.resp = InvalidToken
    /\ ~c.accessed /\ HasRow(c.token)

C19_OwnRecordByDefault ==
  \A c \in Finished :
    /\ c.op \in {"UpdateUser", "DeleteUser"}
    /\ c.cls = "live" /\ c.target = 0 /\ c.arg # "short"
    => c.resp.code = OK

\* the request of a finished call has a missing field or names no record
BadInput(c) ==
  \/ c.op = "CreateForm" /\ c.arg = ""
  \/ c.op = "GetForm" /\ ~\E f \in forms : f.id = c.target

\* C20: a guarded call with an invalid token and an invalid input is answered
\* UNAUTHENTICATED, not INVALID_ARGUMENT or NOT_FOUND, and reaches no model
\* call: the token is checked first
C20_AuthenticationFirst ==
  \A c \in Finished :
    c.op \in Guarded /\ c.cls # "live" /\ BadInput(c) =>
      c.resp.code = UNAUTHENTICATED /\ ~c.accessed

\* C20 witness: CreateForm without a title and with a token that is no JWT
\* was answered UNAUTHENTICATED
C20_Witness ==
  \E c \in Finished :
    /\ c.op = "CreateForm" /\ c.arg = "" /\ c.cls = "malformed"
    /\ c.resp.code = UNAUTHENTICATED

\* C21: a ValidateSession whose token passed verifyToken but whose user
\* record could not be resolved (the user is gone by then, or the lookup
\* throws) is answered UNAUTHENTICATED, never with an identity
C21_ValidateFailsClosed ==
  \A c \in Finished :
    c.op = "ValidateSession" /\ c.threw => c.resp.code = UNAUTHENTICATED

\* C22: the session delete a logout is about to make is no error, reports
\* true exactly when a row of the token is stored and false when there is
\* none, and leaves no row of the token, so that a second delete changes
\* nothing
C22_DeleteReportsRemoval ==
  \A c \in BagToSet(calls) :
    c.pc = "pending" /\ c.op = "DeleteSession" =>
      LET gone == invalidateSession(c.token, FALSE)
      IN /\ ~gone.threw
         /\ gone.result = HasRow(c.token)
         /\ ~\E r \in BagToSet(gone.sessions) : r.token = c.token

\* C23: no guarded handler makes its model call (a read or a write of data)
\* for a token whose DeleteSession has returned success and that has not
\* been stored again, a handler that had passed verifyToken before the
\* logout included
C23_NoAccessAfterLogout ==
  \A c \in Finished :
    c.op \in Guarded /\ c.accessed => c.token \notin revoked

\* C24: a token that verifyToken accepts was returned by a CreateSession,
\* and the identity it yields has the id of the user whose credentials that
\* CreateSession verified: the id in the answer of the login, in the payload
\* of the token and in the identity every handler works under are the same
C24_IdentityBinding ==
  /\ \A c \in Finished :
       c.op = "CreateSession" /\ c.resp.code = OK =>
         /\ c.resp.userId = c.user.id
         /\ c.resp.token.userId = c.user.id
         /\ verifyToken(c.resp.token, FALSE) # NoUser =>
               verifyToken(c.resp.token, FALSE).id = c.user.id
  /\ \A t \in Presentable :
       verifyToken(t, FALSE) # NoUser =>
         t \in issued /\ verifyToken(t, FALSE).id = t.userId
  /\ \A c \in BagToSet(calls) :
       c.op \in TokenOps /\ c.user # NoUser => c.user.id = c.token.userId

\* C24 witness: with the sessions of two users stored, ValidateSession has
\* answered a token of one of them with that user's id
C24_Witness ==
  \E c \in Finished :
    /\ c.op = "ValidateSession" /\ c.cls = "live" /\ c.resp.code = OK
    /\ c.token \in issued /\ c.resp.userId = c.token.userId
    /\ \E r \in BagToSet(sessions) : r.userId # c.token.userId /\ HasUser(r.userId)

\* C25: every stored session row holds a token a successful CreateSession
\* returned; a step changes the sessions table only when it is a
\* CreateSession succeeding, which adds one row of the token it returns, or
\* a DeleteSession succeeding, which removes the rows of its token and no
\* other; validations, guarded handlers, failed logins and failed logouts
\* leave the table as it is
C25_StoreProvenance ==
  [][/\ \A r \in BagToSet(sessions') : r.token \in issued'
     /\ sessions' # sessions =>
          \E c \in BagToSet(calls') :
            /\ c.pc = "done" /\ c.resp.code = OK
            /\ \/ /\ c.op = "CreateSession"
                  /\ sessions' = sessions (+)
                                    SetToBag({[token |-> c.resp.token, userId |-> c.user.id]})
               \/ /\ c.op = "DeleteSession"
                  /\ \A r \in BagToSet(sessions) :
                       CopiesIn(r, sessions') = IF r.token = c.token THEN 0
                                                ELSE CopiesIn(r, sessions)
                  /\ BagToSet(sessions') \subseteq BagToSet(sessions)]_vars

\* C25 witness: a logout has succeeded, the row of its token is gone and
\* the row of another token of the same user is still stored
C25_Witness ==
  \E c \in Finished :
    /\ c.op = "DeleteSession" /\ c.resp.code = OK /\ ~HasRow(c.token)
    /\ \E r \in BagToSet(sessions) : r.userId = c.token.userId /\ r.token # c.token

\* C26: a CreateSession rejected for an empty email or password is answered
\* INVALID_ARGUMENT and one rejected for wrong credentials UNAUTHENTICATED;
\* either way createSession is not reached, the answer carries no token and
\* the sessions table and the set of issued tokens stay as they were
C26_FailedLoginFrame ==
  [][\A c \in BagToSet(calls') :
       /\ c.pc = "done" /\ c.op = "CreateSession"
       /\ c.cls \in {"empty", "unknown-email", "wrong-password"}
       => /\ c.resp.code = IF c.cls = "empty" THEN INVALID_ARGUMENT ELSE UNAUTHENTICATED
          /\ c.resp.token = Absent /\ ~c.accessed
          /\ sessions' = sessions /\ issued' = issued
          /\ nextSessionId' = nextSessionId]_vars

\* C26 witness: with a session stored, a login without a password was
\* answered INVALID_ARGUMENT
C26_Witness ==
  \E c \in Finished :
    /\ c.op = "CreateSession" /\ c.cls = "empty" /\ c.resp.code = INVALID_ARGUMENT
    /\ sessions # EmptyBag

\* C27: a ListForms that succeeds answers with exactly the stored forms
\* whose userId is the id of the identity its token resolved to: none of
\* another user, and every one of the caller
C27_ListFormsExact ==
  \A c \in Finished :
    c.op = "ListForms" /\ c.resp.code = OK =>
      /\ c.user.id = c.token.userId
      /\ c.resp.forms = {form \in forms : form.userId = c.user.id}

\* C27 witness: ListForms of a user without forms was answered with no
\* form while the form of another user is stored
C27_Witness ==
  \E c \in Finished :
    /\ c.op = "ListForms" /\ c.resp.code = OK /\ c.resp.forms = {}
    /\ \E form \in forms : form.userId # c.user.id

\* C28: an UpdateForm or a DeleteForm made under the identity of a user who
\* does not own the form it names leaves the forms table as it was
C28_OwnerOnly ==
  [][\A c \in BagToSet(calls') :
       /\ c.pc = "done" /\ c.op \in {"UpdateForm", "DeleteForm"} /\ c.accessed
       /\ \E f \in forms : f.id = c.target /\ f.userId # c.user.id
       => forms' = forms]_vars

SessionOps == {"CreateSession", "DeleteSession", "ValidateSession"}

\* C29: a call of CreateSession, DeleteSession or ValidateSession has had no
\* callback while its handler runs and exactly one when it has finished, and
\* every such call in flight does finish, on the paths where the store or
\* the user lookup throws as on the others
C29_CallbackExactlyOnce ==
  /\ [](\A c \in BagToSet(calls) :
          c.op \in SessionOps =>
            /\ c.pc = "pending" => c.callbacks = 0
            /\ c.pc = "done" => c.callbacks = 1)
  /\ \A op \in SessionOps :
       (\E c \in BagToSet(calls) : c.op = op /\ c.pc = "pending")
         ~> (\E c \in BagToSet(calls) : c.op = op /\ c.pc = "done" /\ c.callbacks = 1)

\* C29 witness: a logout whose store delete threw has had its one callback,
\* the INTERNAL answer
C29_Witness ==
  \E c \in Finished :
    /\ c.op = "DeleteSession" /\ c.threw /\ c.callbacks = 1
    /\ c.resp = InternalError

====
